---- MODULE Spec2Model ----
(***************************************************************************)
(* Model of streamlit_app.py: the budget tracker's entry form, its         *)
(* spreadsheet-backed transaction store and the read-aggregate-render      *)
(* cycle (sidebar budget overview, dashboard totals, 50/30/20 analysis).   *)
(*                                                                         *)
(* Amounts are integers (st.number_input with step=5).  The budgets are    *)
(* income * 0.5 / 0.3 / 0.2; they are kept in tenths (suffix 10) so that   *)
(* all arithmetic stays exact.  A percentage is the exact fraction         *)
(* num / den.                                                              *)
(***************************************************************************)
EXTENDS Integers, Sequences, FiniteSets, TLC

VARIABLES sheet, client, session_transaction_type, last, view

vars == <<sheet, client, session_transaction_type, last, view>>

-----------------------------------------------------------------------------
(* Bounds and input samples *)

MaxRows == 2
MaxAggRows == 2

TransactionTypes == {"Need", "Want", "Savings", "Income"}

categories ==
  [t \in TransactionTypes |->
     CASE t = "Need" -> {"Rent", "Food", "Utilities", "Transportation",
                         "Healthcare", "Education", "Insurance"}
       [] t = "Want" -> {"Entertainment", "Shopping", "Dining", "Travel",
                         "Hobbies", "Subscriptions", "Gifts"}
       [] t = "Savings" -> {"Emergency Fund", "Investments", "Retirement",
                            "Goals", "Debt Payment"}
       [] t = "Income" -> {"Salary", "Freelance", "Business", "Investments",
                           "Other Income"}]

\* the categories the model actually selects in the form
SampleCategories == {"Rent", "Dining", "Investments"}

\* text typed in the description box: empty, " ab" (two characters once
\* trimmed) and "rent"
NoText == <<>>
ShortText == <<" ", "a", "b">>
Rent == <<"r", "e", "n", "t">>

\* the amount box: left empty (value=None) or holding a number
NoAmount == [entered |-> FALSE, value |-> 0]
Number(n) == [entered |-> TRUE, value |-> n]

\* what the form holds when it is submitted: description and amount
FormInputs ==
  {[description |-> NoText, amount |-> Number(5)],
   [description |-> Rent, amount |-> NoAmount],
   [description |-> Rent, amount |-> Number(0)],
   [description |-> ShortText, amount |-> Number(5)],
   [description |-> Rent, amount |-> Number(-5)],
   [description |-> Rent, amount |-> Number(5)]}

\* dates picked in the date input
Dates == {[year |-> 2024, month |-> 1, day |-> 15]}

\* sheet contents that did not come through the form (rows written by an
\* earlier revision or edited by hand in the spreadsheet)
AggAmounts == {-5, 5, 10}
AggTypes == {"income", "expense"}
AggSpendingTypes == {"Need", "Want", "Savings", "Income", "Other"}

-----------------------------------------------------------------------------
(* Helpers *)

Abs(x) == IF x < 0 THEN -x ELSE x

RECURSIVE SumAmount(_)
\* Series.sum() over the amount column
SumAmount(records) ==
  IF records = <<>> THEN 0
  ELSE Head(records).amount + SumAmount(Tail(records))

Pad(n, width) ==
  IF width = 4 THEN ToString(n)
  ELSE IF n < 10 THEN "0" \o ToString(n) ELSE ToString(n)

\* date.strftime('%Y-%m-%d')
strftime(d) == Pad(d.year, 4) \o "-" \o Pad(d.month, 2) \o "-" \o Pad(d.day, 2)

\* Python truthiness of the description string and of the amount
TruthyDescription(description) == Len(description) > 0
TruthyAmount(amount) == amount.entered /\ amount.value # 0

-----------------------------------------------------------------------------
(* The store: the "Transactions" worksheet *)

FullHeader == {"date", "description", "amount", "category", "type", "spending_type"}
LegacyHeader == {"date", "description", "amount", "category", "type", ""}
\* a sheet whose first row is a data row: its values become the column names
RowValuesHeader == {"<values of the first row>"}

NoSheet == [exists |-> FALSE, header |-> "none", rows |-> <<>>]

\* a row written at the top of the sheet instead of after the last row
append_row_first(s, row) == [s EXCEPT !.rows = <<row>> \o @]

\* sheet.append_row(row)
append_row(s, row) == [s EXCEPT !.rows = Append(@, row)]

\* init_google_sheets under st.cache_resource: the first call decides and the
\* result (a client or None) is kept
init_google_sheets(c, outcome) == IF c = "unset" THEN outcome ELSE c

\* ensure_worksheet_exists: <<returned value, sheet afterwards>>
ensure_worksheet_exists(c, s, e) ==
  IF c = "none" THEN <<FALSE, s>>
  ELSE IF e = "raise_open" THEN <<FALSE, s>>
  ELSE IF s.exists THEN <<TRUE, s>>
  ELSE IF e = "raise_add" THEN <<FALSE, s>>
  ELSE IF e = "raise_header"
       THEN <<FALSE, [exists |-> TRUE, header |-> "none", rows |-> <<>>]>>
  ELSE <<TRUE, [exists |-> TRUE, header |-> "full", rows |-> <<>>]>>

\* add_transaction: <<returned value, sheet afterwards>>
add_transaction(c, s, row, e, a) ==
  LET en == ensure_worksheet_exists(c, s, e) IN
  IF ~en[1] THEN <<FALSE, en[2]>>
  ELSE IF a = "raise" THEN <<FALSE, en[2]>>
  ELSE <<TRUE, append_row(en[2], row)>>

\* pd.DataFrame(records): an empty list gives a frame with no columns
DataFrame(columns, records) ==
  IF records = <<>> THEN [none |-> FALSE, columns |-> {}, records |-> <<>>]
  ELSE [none |-> FALSE, columns |-> columns, records |-> records]

\* sheet.get_all_records(): the first row of the sheet is the header
get_all_records(s) ==
  IF s.header = "full" THEN DataFrame(FullHeader, s.rows)
  ELSE IF s.header = "legacy" THEN DataFrame(LegacyHeader, s.rows)
  ELSE IF s.rows = <<>> THEN DataFrame({}, <<>>)
  ELSE DataFrame(RowValuesHeader, Tail(s.rows))

\* load_transactions: [df, error]; df.none is Python's None (the function
\* falls off its end when there is no client)
load_transactions(c, s, lo) ==
  IF c = "none"
    THEN [df |-> [none |-> TRUE, columns |-> {}, records |-> <<>>], error |-> FALSE]
  ELSE IF lo = "raise" \/ ~s.exists
    THEN [df |-> DataFrame({}, <<>>), error |-> TRUE]
  ELSE [df |-> get_all_records(s), error |-> FALSE]

df_empty(df) == df.records = <<>>

-----------------------------------------------------------------------------
(* Aggregation *)

\* df['type'] == type_ (& df['spending_type'] == spending_type)
TypeMask(r, type_) == r.type = type_

\* the mask without its df['type'] == 'expense' half
SpentMaskAnyType(r, spending_type) == r.spending_type = spending_type

SpentMask(r, spending_type) ==
  r.type = "expense" /\ r.spending_type = spending_type

\* abs(df[mask]['amount'].sum())
Spent(df, spending_type) ==
  Abs(SumAmount(SelectSeq(df.records, LAMBDA r : SpentMask(r, spending_type))))

TotalIncome(df) ==
  SumAmount(SelectSeq(df.records, LAMBDA r : TypeMask(r, "income")))

TotalExpenses(df) ==
  Abs(SumAmount(SelectSeq(df.records, LAMBDA r : TypeMask(r, "expense"))))

\* total_income * 0.5 / 0.3 / 0.2, in tenths
Budget10(total_income, share10) == total_income * share10

ZeroPercent == [num |-> 0, den |-> 1]

\* the division without its budget > 0 condition
UnguardedPercent(spent, budget10) == [num |-> spent * 1000, den |-> budget10]

\* spent / budget * 100 if budget > 0 else 0
GuardedPercent(spent, budget10) ==
  IF budget10 > 0 THEN [num |-> spent * 1000, den |-> budget10] ELSE ZeroPercent

\* the percentage without min(..., 100)
MinPercentUncapped(p) == p

\* min(p, 100)
MinPercent(p) ==
  IF p.num > 100 * p.den THEN [num |-> 100, den |-> 1] ELSE p

Percent(spent, budget10) == MinPercent(GuardedPercent(spent, budget10))

\* the remaining amount floored at zero
Remaining10Clamped(budget10, spent) ==
  IF budget10 - spent * 10 < 0 THEN 0 ELSE budget10 - spent * 10

\* budget - spent, in tenths
Remaining10(budget10, spent) == budget10 - spent * 10

Bucket(df, total_income, spending_type, share10) ==
  LET spent == Spent(df, spending_type)
      budget10 == Budget10(total_income, share10) IN
  [spent |-> spent, budget10 |-> budget10,
   percent |-> Percent(spent, budget10),
   remaining10 |-> Remaining10(budget10, spent)]

-----------------------------------------------------------------------------
(* One script run: sidebar budget overview, then the dashboard *)

\* the guard of the sidebar budget overview
SidebarShown(df) == ~df_empty(df) /\ "spending_type" \in df.columns

\* sidebar budget overview and its three budget cards
Sidebar(df) ==
  IF SidebarShown(df)
    THEN LET total_income == TotalIncome(df) IN
         [shown |-> TRUE, total_income |-> total_income,
          needs |-> Bucket(df, total_income, "Need", 5),
          wants |-> Bucket(df, total_income, "Want", 3),
          savings |-> Bucket(df, total_income, "Savings", 2)]
    ELSE [shown |-> FALSE]

\* actual spending read from the sixth cell whatever its column is called
AnalyticsActualNoFallback(df, spending_type) == Spent(df, spending_type)

\* actual spending with the fallback for a missing column
AnalyticsActual(df, spending_type) ==
  IF "spending_type" \in df.columns THEN Spent(df, spending_type) ELSE 0

\* the guard of the 50/30/20 analysis
AnalyticsShown(total_income) == total_income > 0

\* actual / total_income * 100
PercentOfIncome(actual, total_income) == [num |-> actual * 100, den |-> total_income]

AnalyticsBucket(df, total_income, spending_type, share10) ==
  LET actual == AnalyticsActual(df, spending_type) IN
  [ideal10 |-> Budget10(total_income, share10), actual |-> actual,
   percent |-> PercentOfIncome(actual, total_income)]

\* 50/30/20 Budget Rule Analysis of the Analytics tab
Analytics(df, total_income) ==
  IF AnalyticsShown(total_income)
    THEN [shown |-> TRUE,
          needs |-> AnalyticsBucket(df, total_income, "Need", 5),
          wants |-> AnalyticsBucket(df, total_income, "Want", 3),
          savings |-> AnalyticsBucket(df, total_income, "Savings", 2)]
    ELSE [shown |-> FALSE]

\* main content: empty state, or totals and tabs
MainContent(df) ==
  IF df_empty(df) THEN [state |-> "empty", fault |-> "none"]
  ELSE IF "amount" \notin df.columns THEN [state |-> "dashboard", fault |-> "KeyError"]
  ELSE LET total_income == TotalIncome(df)
           total_expenses == TotalExpenses(df) IN
       [state |-> "dashboard", fault |-> "none",
        total_income |-> total_income, total_expenses |-> total_expenses,
        balance |-> total_income - total_expenses,
        analytics |-> Analytics(df, total_income)]

NotRendered ==
  [fault |-> "none", errors |-> {}, load1 |-> "not_run", load2 |-> "not_run",
   sidebar |-> [shown |-> FALSE], main |-> [state |-> "not_reached", fault |-> "none"]]

LoadStatus(l) == IF l.df.none THEN "none" ELSE IF l.error THEN "failed" ELSE "loaded"

\* the script from the sidebar's load to the end, given the outcome of the
\* two reads
Run(c, s, lo1, lo2) ==
  LET l1 == load_transactions(c, s, lo1)
      l2 == load_transactions(c, s, lo2)
      init_error == IF c = "none" THEN {"init"} ELSE {} IN
  IF l1.df.none
    THEN [fault |-> "AttributeError", errors |-> init_error,
          load1 |-> LoadStatus(l1), load2 |-> "not_run",
          sidebar |-> [shown |-> FALSE],
          main |-> [state |-> "not_reached", fault |-> "none"]]
    ELSE LET main == MainContent(l2.df) IN
         [fault |-> main.fault,
          errors |-> init_error \cup (IF l1.error \/ l2.error THEN {"load"} ELSE {}),
          load1 |-> LoadStatus(l1), load2 |-> LoadStatus(l2),
          sidebar |-> Sidebar(l1.df), main |-> main]

-----------------------------------------------------------------------------
(* The entry form *)

\* the row with the reassigned local transaction_type written in both columns
SubmittedRowLocalType(date, description, amount, category, selected, session) ==
  LET transaction_type == IF selected = "Income" THEN "income" ELSE "expense" IN
  [date |-> strftime(date), description |-> description, amount |-> amount,
   category |-> category, type |-> transaction_type,
   spending_type |-> transaction_type]

\* the row handed to add_transaction by the submit handler
SubmittedRow(date, description, amount, category, selected, session) ==
  LET transaction_type == IF selected = "Income" THEN "income" ELSE "expense" IN
  [date |-> strftime(date), description |-> description, amount |-> amount,
   category |-> category, type |-> transaction_type, spending_type |-> session]

\* if submitted and description and amount
Validated(description, amount) ==
  TruthyDescription(description) /\ TruthyAmount(amount)

CategoryOptions(selected) == categories[selected] \cap SampleCategories

\* what the environment can answer: the credentials are accepted or not
\* (asked once, the answer is cached), a call on the spreadsheet succeeds or
\* raises, the worksheet creation fails at add_worksheet or at the header
ClientOutcomes(c) == IF c = "unset" THEN {"ok", "none"} ELSE {c}
EnsureOutcomes(s) ==
  IF s.exists THEN {"ok", "raise_open"}
  ELSE {"ok", "raise_open", "raise_add", "raise_header"}
CallOutcomes == {"ok", "raise"}

-----------------------------------------------------------------------------
(* State machine *)

EmptySheets ==
  {NoSheet,
   [exists |-> TRUE, header |-> "full", rows |-> <<>>],
   [exists |-> TRUE, header |-> "legacy", rows |-> <<>>]}

Init ==
  /\ sheet \in EmptySheets
  /\ client = "unset"
  /\ session_transaction_type = "Need"
  /\ last = "none"
  /\ view = NotRendered

\* a page load or a filter change: the script runs without a submission
Render ==
  \E o \in ClientOutcomes(client), lo1 \in CallOutcomes, lo2 \in CallOutcomes :
    /\ client' = init_google_sheets(client, o)
    /\ view' = Run(client', sheet, lo1, lo2)
    /\ last' = "none"
    /\ UNCHANGED <<sheet, session_transaction_type>>

\* the Transaction Type selectbox changes and the script reruns
SelectType ==
  \E t \in TransactionTypes, o \in ClientOutcomes(client),
     lo1 \in CallOutcomes, lo2 \in CallOutcomes :
    /\ t # session_transaction_type
    /\ session_transaction_type' = t
    /\ client' = init_google_sheets(client, o)
    /\ view' = Run(client', sheet, lo1, lo2)
    /\ last' = "none"
    /\ UNCHANGED sheet

\* the form is submitted: validation, add_transaction, then the rest of the
\* script (after st.experimental_rerun when the row was added)
Submit ==
  \E input \in FormInputs,
     category \in CategoryOptions(session_transaction_type), date \in Dates,
     o \in ClientOutcomes(client), lo1 \in CallOutcomes, lo2 \in CallOutcomes :
    /\ Len(sheet.rows) < MaxRows
    /\ client' = init_google_sheets(client, o)
    /\ IF Validated(input.description, input.amount)
         THEN \E e \in EnsureOutcomes(sheet), a \in CallOutcomes :
                LET row == SubmittedRow(date, input.description, input.amount.value,
                                        category,
                                        session_transaction_type,
                                        session_transaction_type)
                    res == add_transaction(client', sheet, row, e, a) IN
                /\ sheet' = res[2]
                /\ last' = IF res[1] THEN "added" ELSE "failed"
         ELSE /\ sheet' = sheet
              /\ last' = "invalid"
    /\ view' = Run(client', sheet', lo1, lo2)
    /\ UNCHANGED session_transaction_type

Next == Render \/ SelectType \/ Submit

Spec == Init /\ [][Next]_vars

\* the aggregation over any sheet contents: rows of earlier revisions or
\* rows edited in the spreadsheet, with or without the spending_type column
AggRows ==
  [date : {"2024-01-15"}, description : {Rent},
   amount : AggAmounts, category : {"Rent"}, type : AggTypes,
   spending_type : AggSpendingTypes]

AggTables == UNION {[1..n -> AggRows] : n \in 0..MaxAggRows}

InitAgg ==
  /\ sheet \in [exists : {TRUE}, header : {"full", "legacy"}, rows : AggTables]
  /\ client = "unset"
  /\ session_transaction_type = "Need"
  /\ last = "none"
  /\ view = NotRendered

NextAgg == Render

SpecAgg == InitAgg /\ [][NextAgg]_vars

-----------------------------------------------------------------------------
(* Properties *)

RECURSIVE TrimLeft(_)
TrimLeft(str) ==
  IF str # <<>> /\ Head(str) = " " THEN TrimLeft(Tail(str)) ELSE str

RECURSIVE TrimRight(_)
TrimRight(str) ==
  IF str # <<>> /\ str[Len(str)] = " "
    THEN TrimRight(SubSeq(str, 1, Len(str) - 1)) ELSE str

Trim(str) == TrimRight(TrimLeft(str))

IsPrefix(a, b) == Len(a) <= Len(b) /\ SubSeq(b, 1, Len(a)) = a

Rows == sheet.rows

SameKey(r1, r2) ==
  /\ r1.date = r2.date
  /\ Trim(r1.description) = Trim(r2.description)
  /\ r1.amount = r2.amount
  /\ r1.category = r2.category

\* C1: the store never holds two rows equal on date, trimmed description,
\* amount and category, because a submission that repeats the key of a stored
\* row is not appended.
C1_NoDuplicateKeys ==
  \A i, j \in DOMAIN Rows : i < j => ~SameKey(Rows[i], Rows[j])

\* C2: every stored row has a description of at least 3 trimmed characters
\* and a strictly positive amount, because a submission failing validation
\* never reaches the store.
C2_StoredRowsValid ==
  \A i \in DOMAIN Rows :
    Len(Trim(Rows[i].description)) >= 3 /\ Rows[i].amount > 0

\* C3: the store is append-only: the rows before a step are a prefix of the
\* rows after it, a successful add_transaction appends exactly one row and a
\* run without a submission leaves the rows unchanged.
C3_AppendOnly ==
  [][/\ IsPrefix(sheet.rows, sheet'.rows)
     /\ (last' = "added" => Len(sheet'.rows) = Len(sheet.rows) + 1)
     /\ (last' = "none" => sheet'.rows = sheet.rows)]_vars

C3_Witness ==
  last = "added" /\ Len(Rows) = 2 /\ Rows[1] # Rows[2]

ConnectionFailed ==
  view.load1 \in {"none", "failed"} \/ view.load2 \in {"none", "failed"}

\* C4: when the store connection fails (no client, or the read raises),
\* load_transactions still yields an empty table, a message is shown and the
\* run reaches the empty-state branch instead of faulting on a missing table.
C4_ConnectionFailureReported ==
  ConnectionFailed =>
    /\ view.load1 # "none" /\ view.load2 # "none"
    /\ view.errors # {}
    /\ view.fault # "AttributeError"
    /\ (view.load1 = "failed" => ~view.sidebar.shown)
    /\ (view.load2 = "failed" => view.main.state = "empty")

SidebarBuckets == {view.sidebar.needs, view.sidebar.wants, view.sidebar.savings}

InRange(p) == p.den > 0 /\ 0 <= p.num /\ p.num <= 100 * p.den
IsZero(p) == p.den # 0 /\ p.num = 0
IsHundred(p) == p.den # 0 /\ p.num = 100 * p.den

\* C5: the three progress-bar percentages lie in [0, 100] for every
\* transaction set, also when spend exceeds budget or amounts are negative.
C5_PercentInRange ==
  view.sidebar.shown => \A b \in SidebarBuckets : InRange(b.percent)

C5_Witness ==
  /\ view.sidebar.shown
  /\ \E i \in DOMAIN Rows : Rows[i].amount < 0
  /\ view.sidebar.needs.budget10 > 0
  /\ view.sidebar.needs.spent * 10 > view.sidebar.needs.budget10
  /\ IsHundred(view.sidebar.needs.percent)

DashboardShown == view.main.state = "dashboard" /\ view.main.fault = "none"

AnalyticsBuckets ==
  {view.main.analytics.needs, view.main.analytics.wants,
   view.main.analytics.savings}

NoClassificationColumn == "spending_type" \notin get_all_records(sheet).columns

BudgetOf(b, share10) == b.budget10 = share10 * view.sidebar.total_income

RemainingUnclamped(b) ==
  /\ b.remaining10 = b.budget10 - 10 * b.spent
  /\ (b.remaining10 < 0 <=> 10 * b.spent > b.budget10)

SidebarBudgets ==
  /\ BudgetOf(view.sidebar.needs, 5)
  /\ BudgetOf(view.sidebar.wants, 3)
  /\ BudgetOf(view.sidebar.savings, 2)

\* C8 as stated: remaining is budget - spent with budget 50/30/20 % of
\* totalIncome, negative exactly when spent exceeds budget, and the percent of
\* that bucket is then 100.
C8_RemainingNegativePercentHundred ==
  view.sidebar.shown =>
    /\ SidebarBudgets
    /\ \A b \in SidebarBuckets :
         /\ RemainingUnclamped(b)
         /\ (10 * b.spent > b.budget10 => IsHundred(b.percent))

\* C8 amended: remaining is budget - spent with budget 50/30/20 % of
\* totalIncome, negative exactly when spent exceeds budget; the percent of
\* that bucket is 100 when spent exceeds a positive budget and 0 when the
\* budget is not positive.
C8_RemainingUnclampedPercentClamped ==
  view.sidebar.shown =>
    /\ SidebarBudgets
    /\ \A b \in SidebarBuckets :
         /\ RemainingUnclamped(b)
         /\ (10 * b.spent > b.budget10 /\ b.budget10 > 0 => IsHundred(b.percent))
         /\ (b.budget10 <= 0 => IsZero(b.percent))

C8_Witness ==
  /\ view.sidebar.shown
  /\ view.sidebar.total_income = 5
  /\ view.sidebar.needs.budget10 = 25
  /\ view.sidebar.needs.spent = 5
  /\ view.sidebar.needs.remaining10 = -25
  /\ IsHundred(view.sidebar.needs.percent)

\* what a row adds to a bucket
Contribution(r, bucket) ==
  IF r.type = "expense" /\ r.spending_type = bucket THEN r.amount ELSE 0

RECURSIVE ContributionSum(_, _)
ContributionSum(records, bucket) ==
  IF records = <<>> THEN 0
  ELSE Contribution(Head(records), bucket) + ContributionSum(Tail(records), bucket)

\* C9: an income row adds nothing to needs, wants or savings whatever its
\* classification; an expense row adds its amount to the bucket of its
\* classification only, and to none when the classification is another value.
C9_OnlyMatchingExpensesCount ==
  /\ view.sidebar.shown =>
       /\ view.sidebar.needs.spent = Abs(ContributionSum(Rows, "Need"))
       /\ view.sidebar.wants.spent = Abs(ContributionSum(Rows, "Want"))
       /\ view.sidebar.savings.spent = Abs(ContributionSum(Rows, "Savings"))
  /\ (DashboardShown /\ view.main.analytics.shown /\ ~NoClassificationColumn) =>
       /\ view.main.analytics.needs.actual = Abs(ContributionSum(Rows, "Need"))
       /\ view.main.analytics.wants.actual = Abs(ContributionSum(Rows, "Want"))
       /\ view.main.analytics.savings.actual = Abs(ContributionSum(Rows, "Savings"))

C9_Witness ==
  /\ view.sidebar.shown /\ DashboardShown /\ view.main.analytics.shown
  /\ \E i \in DOMAIN Rows :
       Rows[i].type = "income" /\ Rows[i].spending_type = "Need"
  /\ \E i \in DOMAIN Rows :
       Rows[i].type = "expense" /\ Rows[i].spending_type = "Other"
  /\ view.sidebar.needs.spent = 0

\* C10: every row written through the form has type income exactly when its
\* classification is Income, and type expense exactly when its classification
\* is Need, Want or Savings.
C10_TypeMatchesClassification ==
  \A i \in DOMAIN Rows :
    /\ Rows[i].type = "income" <=> Rows[i].spending_type = "Income"
    /\ Rows[i].type = "expense" <=> Rows[i].spending_type \in {"Need", "Want", "Savings"}

C10_Witness ==
  /\ last = "added"
  /\ \E i \in DOMAIN Rows : Rows[i].type = "income"
  /\ \E i \in DOMAIN Rows : Rows[i].type = "expense" /\ Rows[i].spending_type = "Savings"

====
